---------------------------- MODULE Spec2Model ----------------------------
(***************************************************************************)
(* The scheduling engine of staff_scheduler: class ScheduleGenerator of   *)
(* src/src/models/scheduler.py with the value types it uses                *)
(* (src/src/models/schedule.py, rules.py, availability.py and the         *)
(* Employee record of src/src/database/manager.py).                        *)
(*                                                                         *)
(* The state is one ScheduleGenerator object after __init__.  Its methods  *)
(* are the operations: generate_schedule, and the steps it is made of      *)
(* (_initial_assignment, _optimize_schedule, _evaluate_schedule), which    *)
(* are also called on their own with inputs drawn from small sets.  Loops  *)
(* that the properties look into (the greedy loop, the swap loops of the   *)
(* optimizer) advance one iteration per step.                              *)
(*                                                                         *)
(* Dates are integers; date 0 is a Monday, so weekday(d) = d % 7.          *)
(* A python dict is a sequence of [k, v] records in insertion order; a     *)
(* defaultdict(list) inserts a missing key with [] when it is read.        *)
(***************************************************************************)
EXTENDS Integers, Sequences, FiniteSets, TLC

(***************************************************************************)
(* Bounds of the model.                                                    *)
(***************************************************************************)
NumEmployees == 2
\* the last date a window may end on (windows start on date 0)
MaxEndDate == 1
\* direct calls of an operation on one generator object
MaxCalls == 2
\* direct calls on one generator object in the longer runs of SequenceSpec
MaxSequenceCalls == 4
\* the caller constructs at most this many time-off requests
MaxRequests == 2
\* the dates a constructed request may name: 0..MaxRequestDate
MaxRequestDate == 2
\* the counts 0..MaxPenaltyCount the score formula is compared on
MaxPenaltyCount == 3

(***************************************************************************)
(* Enumerations.  Members of different Enum classes are never equal.       *)
(***************************************************************************)
GRAVES == "ShiftType.GRAVES"
SWINGS == "ShiftType.SWINGS"
DAYS == "ShiftType.DAYS"
\* iteration order of `for shift_type in ShiftType`
ShiftType == <<GRAVES, SWINGS, DAYS>>

min_staff_required(shift_type) ==
    IF shift_type \in {GRAVES, SWINGS} THEN 4 ELSE 1

ShiftPreference ==
    {"ShiftPreference.GRAVES", "ShiftPreference.SWINGS",
     "ShiftPreference.DAYS", "ShiftPreference.NO_PREFERENCE"}

TimeOffRequestStatus == {"pending", "approved", "denied", "cancelled"}

RuleType == {"min_staff", "consecutive_days", "shift_spacing", "skill", "max_shifts"}

max_iterations == 1000

(***************************************************************************)
(* Sequences and dicts.                                                    *)
(***************************************************************************)
Range(s) == {s[i] : i \in 1..Len(s)}

\* every occurrence goes
ListRemove_all(s, x) ==
    LET keep == {i \in 1..Len(s) : s[i] # x}
        order == [n \in 1..Cardinality(keep) |->
                     CHOOSE p \in keep : Cardinality({q \in keep : q < p}) = n - 1]
    IN  [n \in 1..Len(order) |-> s[order[n]]]

\* list.remove(x) on a list that holds x: the first occurrence goes
ListRemove(s, x) ==
    LET i == CHOOSE j \in 1..Len(s) : s[j] = x /\ \A m \in 1..(j-1) : s[m] # x
    IN  SubSeq(s, 1, i-1) \o SubSeq(s, i+1, Len(s))

DictHas(d, k) == \E i \in 1..Len(d) : d[i].k = k
DictIdx(d, k) == CHOOSE i \in 1..Len(d) : d[i].k = k
\* the value read by d[k] on a defaultdict(list)
DictGet(d, k) == IF DictHas(d, k) THEN d[DictIdx(d, k)].v ELSE <<>>
\* the dict after d[k] was read
DictTouch(d, k) == IF DictHas(d, k) THEN d ELSE Append(d, [k |-> k, v |-> <<>>])
\* the dict after d[k].append(x)
DictAppend(d, k, x) ==
    LET t == DictTouch(d, k)
    IN  [t EXCEPT ![DictIdx(t, k)].v = Append(@, x)]
\* the whole list of the key is emptied
DictRemove_clear(d, k, x) == [d EXCEPT ![DictIdx(d, k)].v = <<>>]

\* the dict after d[k].remove(x), for a key and a value that are there
DictRemove(d, k, x) == [d EXCEPT ![DictIdx(d, k)].v = ListRemove(@, x)]

\* the positions of a set of integers, ascending
Ascending(P) ==
    [n \in 1..Cardinality(P) |-> CHOOSE p \in P : Cardinality({q \in P : q < p}) = n - 1]

\* the dict after d[k] was read for each k of ks, in that order
TouchAll(d, ks) ==
    LET new == {i \in 1..Len(ks) :
                   ~DictHas(d, ks[i]) /\ \A j \in 1..(i-1) : ks[j] # ks[i]}
        order == Ascending(new)
    IN  d \o [n \in 1..Len(order) |-> [k |-> ks[order[n]], v |-> <<>>]]

\* keys are pairs of integers, compared as python compares tuples
LexLess(a, b) == a[1] < b[1] \/ (a[1] = b[1] /\ a[2] < b[2])

\* sorted(): ascending and stable.  Elements are [key, val] records.
InsertStable(s, x) ==
    LET n == Cardinality({i \in 1..Len(s) : ~LexLess(x.key, s[i].key)})
    IN  SubSeq(s, 1, n) \o <<x>> \o SubSeq(s, n+1, Len(s))

RECURSIVE SortPrefix(_, _)
SortPrefix(s, n) ==
    IF n = 0 THEN <<>> ELSE InsertStable(SortPrefix(s, n - 1), s[n])

StableSort(s) == SortPrefix(s, Len(s))

Vals(s) == [i \in 1..Len(s) |-> s[i].val]

RECURSIVE SumFrom(_, _)
SumFrom(s, i) == IF i > Len(s) THEN 0 ELSE s[i] + SumFrom(s, i + 1)

SumSeq(s) == SumFrom(s, 1)

RECURSIVE FlattenFrom(_, _)
FlattenFrom(s, i) == IF i > Len(s) THEN <<>> ELSE s[i] \o FlattenFrom(s, i + 1)

Flatten(s) == FlattenFrom(s, 1)

VARIABLES
    start_date, end_date, employees, rules, time_off_requests,
    employee_availability, shift_assignments, employee_shifts,
    pc, op, err, calls,
    shifts_by_difficulty,
    improved, iterations, current_score, cursor, pending,
    score, result,
    shift_scores, greedy_log, entry_score, kept, attempted, before_swap,
    request_call

inputs == <<start_date, end_date, employees, rules, time_off_requests,
            employee_availability>>
vars == <<start_date, end_date, employees, rules, time_off_requests,
          employee_availability, shift_assignments, employee_shifts,
          pc, op, err, calls, shifts_by_difficulty,
          improved, iterations, current_score, cursor, pending, score, result,
          shift_scores, greedy_log, entry_score, kept, attempted, before_swap,
          request_call>>

\* what the caller does before it constructs the generator: the last call
\* TimeOffRequest(...) it made, with the arguments and the outcome
caller == <<request_call>>

\* the locals of _optimize_schedule, with two records of its run: the
\* total score it was entered with, and the number of swaps of the running
\* pass that were made and not taken back; and two more records: the calls
\* _try_swap(emp1, slot1, emp2, slot2) the running pass has made at line 257,
\* and, while a swap waits to be taken back, the two maps as they were when
\* it was attempted
optimizer == <<improved, iterations, current_score, cursor, pending, entry_score, kept,
               attempted, before_swap>>

\* the locals of _initial_assignment: the list of line 138, the scores of
\* lines 155-158 it was sorted by, and a record of the loop of lines
\* 140-149: per processed slot, how many employees were eligible
greedy == <<shifts_by_difficulty, shift_scores, greedy_log>>

(***************************************************************************)
(* __init__ and the availability map.                                      *)
(***************************************************************************)
weekday(d) == d % 7

\* _date_range as a list, for a window given as arguments
DateRangeOf(s, e) == [i \in 1..(IF e >= s THEN e - s + 1 ELSE 0) |-> s + i - 1]
date_range == DateRangeOf(start_date, end_date)

Employee(i) == employees[i]
EmployeeById(id) == employees[CHOOSE i \in 1..Len(employees) : employees[i].id = id]

\* the time-off requests are not applied
BuildAvailabilityMap_nooff(s, e, emps, reqs) ==
    LET dates == Range(DateRangeOf(s, e))
        initKeys == {<<d, emps[i].id>> : d \in dates,
                                          i \in {j \in 1..Len(emps) : emps[j].is_active}}
        fixedKeys == {<<p[1], emps[p[2]].id>> :
                          p \in {q \in dates \X (1..Len(emps)) :
                                   /\ emps[q[2]].is_active
                                   /\ weekday(q[1]) \in emps[q[2]].fixed_days_off}}
    IN  [k \in initKeys |-> k \notin fixedKeys]

\* the last date of a request is left available
BuildAvailabilityMap_exclusive(s, e, emps, reqs) ==
    LET dates == Range(DateRangeOf(s, e))
        initKeys == {<<d, emps[i].id>> : d \in dates,
                                          i \in {j \in 1..Len(emps) : emps[j].is_active}}
        a1 == [k \in initKeys |-> TRUE]
        offKeys == UNION {{<<d, reqs[r].employee_id>> :
                              d \in reqs[r].start_date .. (reqs[r].end_date - 1)} :
                          r \in {q \in 1..Len(reqs) : reqs[q].status = "approved"}}
        a2 == [k \in DOMAIN a1 \cup offKeys |-> IF k \in offKeys THEN FALSE ELSE a1[k]]
        fixedKeys == {<<p[1], emps[p[2]].id>> :
                          p \in {q \in dates \X (1..Len(emps)) :
                                   /\ emps[q[2]].is_active
                                   /\ weekday(q[1]) \in emps[q[2]].fixed_days_off}}
    IN  [k \in DOMAIN a2 \cup fixedKeys |-> IF k \in fixedKeys THEN FALSE ELSE a2[k]]

BuildAvailabilityMap(s, e, emps, reqs) ==
    LET dates == Range(DateRangeOf(s, e))
        \* lines 45-49
        initKeys == {<<d, emps[i].id>> : d \in dates,
                                          i \in {j \in 1..Len(emps) : emps[j].is_active}}
        a1 == [k \in initKeys |-> TRUE]
        \* lines 52-59
        offKeys == UNION {{<<d, reqs[r].employee_id>> :
                              d \in reqs[r].start_date .. reqs[r].end_date} :
                          r \in {q \in 1..Len(reqs) : reqs[q].status = "approved"}}
        a2 == [k \in DOMAIN a1 \cup offKeys |-> IF k \in offKeys THEN FALSE ELSE a1[k]]
        \* lines 62-67
        fixedKeys == {<<p[1], emps[p[2]].id>> :
                          p \in {q \in dates \X (1..Len(emps)) :
                                   /\ emps[q[2]].is_active
                                   /\ weekday(q[1]) \in emps[q[2]].fixed_days_off}}
    IN  [k \in DOMAIN a2 \cup fixedKeys |-> IF k \in fixedKeys THEN FALSE ELSE a2[k]]

(***************************************************************************)
(* Inputs of a generator: the small sets the constructor arguments are     *)
(* drawn from.  A TimeOffRequest exists only with start_date < end_date    *)
(* (availability.py:49), a SchedulingRule only with its required           *)
(* parameters (rules.py:45).                                               *)
(***************************************************************************)
PreferenceOf(i) ==
    IF i % 2 = 1 THEN "ShiftPreference.GRAVES" ELSE "ShiftPreference.NO_PREFERENCE"

\* odd employees may have Tuesdays off and may be inactive, even ones may
\* have Mondays off
DaysOffOf(i) == IF i % 2 = 1 THEN {{}, {1}} ELSE {{}, {0}}

EmployeeInputs ==
    {e \in [1..NumEmployees ->
              [id : 1..NumEmployees,
               shift_preference : ShiftPreference,
               fixed_days_off : {{}, {0}, {1}},
               is_active : BOOLEAN]] :
        \A i \in 1..NumEmployees :
            /\ e[i].id = i
            /\ e[i].shift_preference = PreferenceOf(i)
            /\ e[i].fixed_days_off \in DaysOffOf(i)
            /\ (i % 2 = 0 => e[i].is_active)}

TimeOffInputs ==
    {<<>>} \cup
    {<<[employee_id |-> 1, start_date |-> 0, end_date |-> MaxEndDate, status |-> st]>> :
        st \in {"approved", "pending"}}

MaxShiftsRule(prio, n, active) ==
    [rule_type |-> "max_shifts", priority |-> prio,
     parameters |-> [period_days |-> 7, max_count |-> n], is_active |-> active]

RuleInputs ==
    {<<>>,
     <<MaxShiftsRule(50, 1, TRUE)>>,
     <<MaxShiftsRule(50, 1, FALSE)>>,
     <<MaxShiftsRule(10, 2, TRUE), MaxShiftsRule(90, 5, TRUE)>>}

\* scheduler.py:32: sorted(rules, key=priority, reverse=True); reverse keeps
\* the input order of equal priorities
SortRules(rs) ==
    Vals(StableSort([i \in 1..Len(rs) |-> [key |-> <<0 - rs[i].priority, 0>>, val |-> rs[i]]]))

(***************************************************************************)
(* The constraint evaluator.                                               *)
(***************************************************************************)
\* called at scheduler.py:209, defined in no file of src/: the employee's
\* already-assigned shift count reaches or exceeds max_count
WouldExceedMaxShifts(es, employee_id, max_count) ==
    Len(DictGet(es, employee_id)) >= max_count

\* called at scheduler.py:320, defined in no file of src/: the employee's
\* whole current assignment set triggers the rule
CheckRuleViolation(es, employee_id, rule) ==
    /\ rule.rule_type = "max_shifts"
    /\ Len(DictGet(es, employee_id)) > rule.parameters.max_count

\* only the first rule of the list is looked at
ViolatesConstraints_first(es, employee_id, shift_date, shift_type) ==
    /\ rules # <<>>
    /\ rules[1].is_active
    /\ rules[1].rule_type = "max_shifts"
    /\ WouldExceedMaxShifts(es, employee_id, rules[1].parameters.max_count)

\* the rule loop returns True at the first active rule that is violated;
\* rules of type min_staff and skill fall through every branch
ViolatesConstraints(es, employee_id, shift_date, shift_type) ==
    \E i \in 1..Len(rules) :
        /\ rules[i].is_active
        /\ rules[i].rule_type = "max_shifts"
        /\ WouldExceedMaxShifts(es, employee_id, rules[i].parameters.max_count)

PreferenceScore(employee_id, shift_type) ==
    IF EmployeeById(employee_id).shift_preference = shift_type THEN 1 ELSE 0

(***************************************************************************)
(* _get_available_employees: the list it returns, and _employee_shifts     *)
(* after the sort key read len(self._employee_shifts[x]) of each candidate *)
(***************************************************************************)
Eligible(es, employee, shift_date, shift_type) ==
    /\ employee.is_active
    /\ employee_availability[<<shift_date, employee.id>>]
    /\ ~ViolatesConstraints(es, employee.id, shift_date, shift_type)

\* the loop of lines 170-180, over the employees from position i on
RECURSIVE EligibleFrom(_, _, _, _)
EligibleFrom(es, i, shift_date, shift_type) ==
    IF i > Len(employees) THEN <<>>
    ELSE (IF Eligible(es, employees[i], shift_date, shift_type)
          THEN <<employees[i].id>> ELSE <<>>)
         \o EligibleFrom(es, i + 1, shift_date, shift_type)

EligibleIds(es, shift_date, shift_type) == EligibleFrom(es, 1, shift_date, shift_type)

GetAvailableEmployees(es, shift_date, shift_type) ==
    LET available == EligibleIds(es, shift_date, shift_type)
    IN  Vals(StableSort([i \in 1..Len(available) |->
            [key |-> <<PreferenceScore(available[i], shift_type),
                       0 - Len(DictGet(es, available[i]))>>,
             val |-> available[i]]]))

TouchAvailable(es, shift_date, shift_type) ==
    TouchAll(es, EligibleIds(es, shift_date, shift_type))

\* the append is lost when the slot has no list yet
AssignShiftSA_lost(sa, employee_id, slot) ==
    IF DictHas(sa, slot) THEN DictAppend(sa, slot, employee_id) ELSE sa

\* _assign_shift on both maps
AssignShiftSA(sa, employee_id, slot) == DictAppend(sa, slot, employee_id)
\* the slot is appended to the employee's list only while that list is empty
AssignShiftES_once(es, employee_id, slot) ==
    IF DictGet(es, employee_id) = <<>> THEN DictAppend(es, employee_id, slot)
    ELSE DictTouch(es, employee_id)

AssignShiftES(es, employee_id, slot) == DictAppend(es, employee_id, slot)

(***************************************************************************)
(* The scorer.                                                             *)
(***************************************************************************)
\* every (date, shift type) of the window, in the order of lines 300-301
WindowSlots ==
    Flatten([i \in 1..Len(date_range) |->
                [j \in 1..Len(ShiftType) |-> <<date_range[i], ShiftType[j]>>]])

\* every slot of the window is given a new empty list
EvaluateTouch_reset(sa) == TouchAll(<<>>, WindowSlots)

\* _shift_assignments after lines 300-302 read every slot of the window
EvaluateTouch(sa) == TouchAll(sa, WindowSlots)

Unfilled(sa) ==
    SumSeq([i \in 1..Len(WindowSlots) |->
        LET assigned == Len(DictGet(sa, WindowSlots[i]))
            required == min_staff_required(WindowSlots[i][2])
        IN  IF assigned < required THEN required - assigned ELSE 0])

Mismatches(es) ==
    SumSeq([i \in 1..Len(es) |->
        Cardinality({n \in 1..Len(es[i].v) :
                        es[i].v[n][2] # EmployeeById(es[i].k).shift_preference})])

\* one description per (employee, active rule) that is violated, in the
\* order of the employee keys and of the rules
Violations(es) ==
    Flatten([i \in 1..Len(es) |->
        Flatten([r \in 1..Len(rules) |->
            IF rules[r].is_active /\ CheckRuleViolation(es, es[i].k, rules[r])
            THEN <<[employee |-> es[i].k, violates |-> rules[r].rule_type]>>
            ELSE <<>>])])

\* the penalties are added up without the minus sign
TotalScore_unsigned(unfilled, mismatches, violations) ==
    unfilled * 100 + mismatches * 10 + violations * 50

\* line 326
TotalScore(unfilled, mismatches, violations) ==
    0 - (unfilled * 100 + mismatches * 10 + violations * 50)

EvaluateSchedule(sa, es) ==
    LET unfilled == Unfilled(sa)
        mismatches == Mismatches(es)
        violations == Violations(es)
    IN  [total_score |-> TotalScore(unfilled, mismatches, Len(violations)),
         unfilled_shifts |-> unfilled,
         preference_mismatches |-> mismatches,
         rule_violations |-> violations]

(***************************************************************************)
(* The requirement generator and the greedy assigner.                      *)
(***************************************************************************)
\* one slot more than the minimum staff
GroupSlots_more(slot) == [n \in 1..(min_staff_required(slot[2]) + 1) |-> slot]

GroupSlots(slot) == [n \in 1..min_staff_required(slot[2]) |-> slot]

\* one slot per (date, shift type)
GenerateRequiredShifts_single == WindowSlots

GenerateRequiredShifts == Flatten([i \in 1..Len(WindowSlots) |-> GroupSlots(WindowSlots[i])])

\* the lists a direct call of _initial_assignment is given: the required
\* slots of one group of the window, or of two
RequiredInputs ==
    LET groups == Range(WindowSlots)
    IN  {GroupSlots(g) : g \in groups} \cup
        {GroupSlots(p[1]) \o GroupSlots(p[2]) :
            p \in {q \in groups \X groups : q[1][1] < q[2][1] /\ q[1][2] = q[2][2]}}

\* lines 155-158: (available, (shift_date, shift_type)) per shift
ShiftScores(es, shifts) ==
    [i \in 1..Len(shifts) |->
        [available |-> Len(GetAvailableEmployees(es, shifts[i][1], shifts[i][2])),
         shift |-> shifts[i]]]

\* _employee_shifts after the calls of line 157: each call reads the key of
\* every candidate it found, and reading a key changes no candidate list
TouchForShifts(es, shifts) ==
    TouchAll(es, Flatten([i \in 1..Len(shifts) |->
                             EligibleIds(es, shifts[i][1], shifts[i][2])]))

\* line 161: list.sort() of the tuples has to order two ShiftType members
\* whenever two entries agree on the count and the date and differ in the
\* type; Enum members have no "<", so that comparison raises TypeError
SortRaises(scores) ==
    \E i, j \in 1..Len(scores) :
        /\ scores[i].available = scores[j].available
        /\ scores[i].shift[1] = scores[j].shift[1]
        /\ scores[i].shift[2] # scores[j].shift[2]

SortShiftsByDifficulty(es, shifts) ==
    LET scores == ShiftScores(es, shifts)
    IN  Vals(StableSort([i \in 1..Len(scores) |->
            [key |-> <<scores[i].available, scores[i].shift[1]>>,
             val |-> scores[i].shift]]))

(***************************************************************************)
(* The local-search optimizer.                                             *)
(***************************************************************************)
NoScore == [total_score |-> 0, unfilled_shifts |-> 0, preference_mismatches |-> 0,
            rule_violations |-> <<>>]

\* Where the four nested loops of lines 250-256 stand.  k1 and k2 are the
\* positions of the two dict iterators; i is the next index of the list
\* iterator behind `for emp1 in employees1`, j the one behind `for emp2 in
\* employees2`; held says that emp1 is bound and the emp2 loop is running.
\* Both list iterators read the live lists by index.
PassStart == [k1 |-> 1, k2 |-> 0, i |-> 1, j |-> 1, held |-> FALSE, emp1 |-> 0]

InLoops(sa, c) ==
    c.k1 \in 1..Len(sa) /\ c.k2 \in 1..Len(sa) /\ c.k1 # c.k2

\* the pairs of distinct slot groups in which both loops find an employee
SwapPairs(sa) ==
    {p \in (1..Len(sa)) \X (1..Len(sa)) :
        p[1] # p[2] /\ sa[p[1]].v # <<>> /\ sa[p[2]].v # <<>>}

PairsAfter(sa, c) == {p \in SwapPairs(sa) : LexLess(<<c.k1, c.k2>>, p)}

\* the loops have run out
PassOver(sa, c) ==
    /\ ~(InLoops(sa, c) /\ c.held /\ c.j <= Len(sa[c.k2].v))
    /\ ~(InLoops(sa, c) /\ c.i <= Len(sa[c.k1].v) /\ sa[c.k2].v # <<>>)
    /\ PairsAfter(sa, c) = {}

\* the loops advanced to the next call of _try_swap at line 257: the cursor
\* with emp1 bound and j at the index emp2 is read from
NextAttempt(sa, c) ==
    IF InLoops(sa, c) /\ c.held /\ c.j <= Len(sa[c.k2].v)
    THEN c
    ELSE IF InLoops(sa, c) /\ c.i <= Len(sa[c.k1].v) /\ sa[c.k2].v # <<>>
    THEN [c EXCEPT !.held = TRUE, !.emp1 = sa[c.k1].v[c.i], !.i = c.i + 1, !.j = 1]
    ELSE LET after == PairsAfter(sa, c)
             p == CHOOSE q \in after : \A r \in after : r = q \/ LexLess(q, r)
         IN  [k1 |-> p[1], k2 |-> p[2], i |-> 2, j |-> 1, held |-> TRUE,
              emp1 |-> sa[p[1]].v[1]]

\* line 259
Better(new_score, old_score) == new_score.total_score > old_score.total_score

\* "or" in place of "and"
LoopContinues_or(imp, iters) == imp \/ iters < max_iterations

\* the loop test of line 245, with the pass counter already incremented
LoopContinues(imp, iters) == imp /\ iters < max_iterations

Holds(d, k, x) == DictHas(d, k) /\ x \in Range(DictGet(d, k))

\* _try_swap: the two maps when it returns or raises, and how it ended.
\* list.remove raises ValueError when the value is not in the list; the
\* removals before it stay done.
TrySwap(sa, es, emp1, slot1, emp2, slot2) ==
    IF ~Holds(sa, slot1, emp1)
    THEN [sa |-> sa, es |-> es, ended |-> "ValueError"]
    ELSE LET sa1 == DictRemove(sa, slot1, emp1) IN
    IF ~Holds(sa1, slot2, emp2)
    THEN [sa |-> sa1, es |-> es, ended |-> "ValueError"]
    ELSE LET sa2 == DictRemove(sa1, slot2, emp2) IN
    IF ~Holds(es, emp1, slot1)
    THEN [sa |-> sa2, es |-> DictTouch(es, emp1), ended |-> "ValueError"]
    ELSE LET es1 == DictRemove(es, emp1, slot1) IN
    IF ~Holds(es1, emp2, slot2)
    THEN [sa |-> sa2, es |-> DictTouch(es1, emp2), ended |-> "ValueError"]
    ELSE LET es2 == DictRemove(es1, emp2, slot2)
             valid1 == ~ViolatesConstraints(es2, emp2, slot1[1], slot1[2])
             valid2 == ~ViolatesConstraints(es2, emp1, slot2[1], slot2[2])
         IN  IF valid1 /\ valid2
             THEN [sa |-> AssignShiftSA(AssignShiftSA(sa2, emp2, slot1), emp1, slot2),
                   es |-> AssignShiftES(AssignShiftES(es2, emp2, slot1), emp1, slot2),
                   ended |-> "True"]
             ELSE [sa |-> AssignShiftSA(AssignShiftSA(sa2, emp1, slot1), emp2, slot2),
                   es |-> AssignShiftES(AssignShiftES(es2, emp1, slot1), emp2, slot2),
                   ended |-> "False"]

\* TimeOffRequest.__post_init__ (availability.py:47-50) raises ValueError
TimeOffRequestRaises(s, e) == s >= e

NoCall == [made |-> FALSE]

(***************************************************************************)
(* Init: the object when __init__ returns.                                 *)
(***************************************************************************)
Init ==
    /\ start_date = 0
    /\ end_date \in (0 - 1)..MaxEndDate
    /\ employees \in EmployeeInputs
    /\ \E rs \in RuleInputs : rules = SortRules(rs)
    /\ time_off_requests \in TimeOffInputs
    /\ employee_availability =
           BuildAvailabilityMap(start_date, end_date, employees, time_off_requests)
    /\ shift_assignments = <<>>
    /\ employee_shifts = <<>>
    /\ pc = "idle"
    /\ op = "none"
    /\ err = "none"
    /\ calls = 0
    /\ shifts_by_difficulty = <<>>
    /\ improved = FALSE
    /\ iterations = 0
    /\ current_score = NoScore
    /\ cursor = PassStart
    /\ pending = <<>>
    /\ score = NoScore
    /\ result = <<>>
    /\ shift_scores = <<>>
    /\ greedy_log = <<>>
    /\ entry_score = 0
    /\ kept = 0
    /\ attempted = {}
    /\ before_swap = <<>>
    /\ request_call = NoCall

(***************************************************************************)
(* Operations.                                                             *)
(***************************************************************************)
\* _initial_assignment up to the end of line 138
BeginInitialAssignment(required_shifts) ==
    /\ employee_shifts' = TouchForShifts(employee_shifts, required_shifts)
    /\ shift_scores' = ShiftScores(employee_shifts, required_shifts)
    /\ greedy_log' = <<>>
    /\ IF SortRaises(ShiftScores(employee_shifts, required_shifts))
       THEN /\ pc' = "raised"
            /\ err' = "TypeError"
            /\ shifts_by_difficulty' = <<>>
       ELSE /\ pc' = "greedy"
            /\ err' = "none"
            /\ shifts_by_difficulty' =
                   SortShiftsByDifficulty(employee_shifts, required_shifts)
    /\ score' = NoScore
    /\ UNCHANGED <<caller, inputs, shift_assignments, optimizer, result>>

\* a direct call _initial_assignment(required_shifts) with a list of
\* lists, while fewer than limit calls were made on the object
InitialAssignmentWithin(limit, lists) ==
    /\ pc = "idle"
    /\ calls < limit
    /\ calls' = calls + 1
    /\ op' = "initial"
    /\ \E required_shifts \in lists : BeginInitialAssignment(required_shifts)

InitialAssignment == InitialAssignmentWithin(MaxCalls, RequiredInputs)

\* generate_schedule is called: line 85
GenerateSchedule ==
    /\ pc = "idle"
    /\ calls < MaxCalls
    /\ calls' = calls + 1
    /\ pc' = "gen_start"
    /\ op' = "generate"
    /\ UNCHANGED <<caller, inputs, shift_assignments, employee_shifts, err, greedy, optimizer,
                   score, result>>

\* generate_schedule, lines 88-91 up to the sort of line 138
GenerateInitial ==
    /\ pc = "gen_start"
    /\ BeginInitialAssignment(GenerateRequiredShifts)
    /\ UNCHANGED <<op, calls>>

\* one iteration of the loop of lines 140-149
GreedyStep ==
    /\ pc = "greedy"
    /\ shifts_by_difficulty # <<>>
    /\ LET slot == Head(shifts_by_difficulty)
           available_employees == GetAvailableEmployees(employee_shifts, slot[1], slot[2])
           touched == TouchAvailable(employee_shifts, slot[1], slot[2])
       IN  /\ IF available_employees = <<>>
              THEN /\ employee_shifts' = touched
                   /\ UNCHANGED shift_assignments
              ELSE /\ shift_assignments' =
                          AssignShiftSA(shift_assignments, available_employees[1], slot)
                   /\ employee_shifts' =
                          AssignShiftES(touched, available_employees[1], slot)
           /\ greedy_log' = Append(greedy_log,
                                   [shift |-> slot, eligible |-> Len(available_employees)])
    /\ shifts_by_difficulty' = Tail(shifts_by_difficulty)
    /\ UNCHANGED <<caller, inputs, pc, op, err, calls, optimizer, score, result, shift_scores>>

\* the loop of lines 140-149 is over
GreedyDone ==
    /\ pc = "greedy"
    /\ shifts_by_difficulty = <<>>
    /\ pc' = IF op = "generate" THEN "gen_optimize" ELSE "idle"
    /\ op' = IF op = "generate" THEN op ELSE "none"
    /\ shift_scores' = <<>>
    /\ greedy_log' = <<>>
    /\ UNCHANGED <<caller, inputs, shift_assignments, employee_shifts, err, calls,
                   shifts_by_difficulty, optimizer, score, result>>

\* lines 246-247: a pass begins
BeginPass ==
    /\ improved' = FALSE
    /\ kept' = 0
    /\ current_score' = EvaluateSchedule(shift_assignments, employee_shifts)
    /\ shift_assignments' = EvaluateTouch(shift_assignments)
    /\ cursor' = PassStart
    /\ pending' = <<>>
    /\ attempted' = {}
    /\ before_swap' = <<>>

\* _optimize_schedule is entered, by a direct call or from generate_schedule
\* (line 94): lines 241-247
OptimizeScheduleWithin(limit) ==
    /\ \/ pc = "idle" /\ calls < limit /\ calls' = calls + 1 /\ op' = "optimize"
       \/ pc = "gen_optimize" /\ UNCHANGED <<calls, op>>
    /\ iterations' = 0
    /\ BeginPass
    /\ entry_score' = EvaluateSchedule(shift_assignments, employee_shifts).total_score
    /\ pc' = "optimize"
    /\ score' = NoScore
    /\ UNCHANGED <<caller, inputs, employee_shifts, err, greedy, result>>

OptimizeSchedule == OptimizeScheduleWithin(MaxCalls)

\* the next call of _try_swap at line 257, with lines 258-260
SwapAttempt ==
    /\ pc = "optimize"
    /\ ~PassOver(shift_assignments, cursor)
    /\ LET c == NextAttempt(shift_assignments, cursor)
           slot1 == shift_assignments[c.k1].k
           slot2 == shift_assignments[c.k2].k
           emp2 == shift_assignments[c.k2].v[c.j]
           t == TrySwap(shift_assignments, employee_shifts, c.emp1, slot1, emp2, slot2)
           new_score == EvaluateSchedule(t.sa, t.es)
       IN  /\ shift_assignments' = t.sa
           /\ employee_shifts' = t.es
           /\ cursor' = [c EXCEPT !.j = c.j + 1]
           /\ attempted' = attempted \cup {<<slot1, c.emp1, slot2, emp2>>}
           /\ before_swap' = IF t.ended = "True" /\ ~Better(new_score, current_score)
                              THEN <<shift_assignments, employee_shifts>>
                              ELSE <<>>
           /\ IF t.ended = "ValueError"
              THEN /\ pc' = "raised"
                   /\ err' = "ValueError"
                   /\ UNCHANGED <<improved, pending, kept>>
              ELSE IF t.ended = "False"
              THEN UNCHANGED <<pc, err, improved, pending, kept>>
              ELSE IF Better(new_score, current_score)
              THEN /\ improved' = TRUE
                   /\ kept' = kept + 1
                   /\ UNCHANGED <<pc, err, pending>>
              ELSE /\ pc' = "revert"
                   /\ pending' = <<emp2, slot1, c.emp1, slot2>>
                   /\ UNCHANGED <<err, improved, kept>>
    /\ UNCHANGED <<caller, inputs, op, calls, greedy, iterations, current_score, entry_score,
                   score, result>>

\* the second call repeats the arguments of the first
RevertSwap_repeat ==
    /\ pc = "revert"
    /\ LET t == TrySwap(shift_assignments, employee_shifts,
                        pending[3], pending[2], pending[1], pending[4])
       IN  /\ shift_assignments' = t.sa
           /\ employee_shifts' = t.es
           /\ IF t.ended = "ValueError"
              THEN pc' = "raised" /\ err' = "ValueError"
              ELSE pc' = "optimize" /\ UNCHANGED err
           /\ kept' = IF t.ended = "True" THEN kept ELSE kept + 1
    /\ pending' = <<>>
    /\ before_swap' = <<>>
    /\ UNCHANGED <<caller, inputs, op, calls, greedy, improved, iterations, current_score,
                   cursor, entry_score, score, result, attempted>>

\* line 263: the swap is taken back by a second call of _try_swap, whose
\* return value is not looked at
RevertSwap ==
    /\ pc = "revert"
    /\ LET t == TrySwap(shift_assignments, employee_shifts,
                        pending[1], pending[2], pending[3], pending[4])
       IN  /\ shift_assignments' = t.sa
           /\ employee_shifts' = t.es
           /\ IF t.ended = "ValueError"
              THEN pc' = "raised" /\ err' = "ValueError"
              ELSE pc' = "optimize" /\ UNCHANGED err
           /\ kept' = IF t.ended = "True" THEN kept ELSE kept + 1
    /\ pending' = <<>>
    /\ before_swap' = <<>>
    /\ UNCHANGED <<caller, inputs, op, calls, greedy, improved, iterations, current_score,
                   cursor, entry_score, score, result, attempted>>

\* the for loops are over: line 265 and the loop test of line 245
PassEnd ==
    /\ pc = "optimize"
    /\ PassOver(shift_assignments, cursor)
    /\ iterations' = iterations + 1
    /\ IF LoopContinues(improved, iterations + 1)
       THEN /\ BeginPass
            /\ UNCHANGED pc
       ELSE /\ pc' = "optimized"
            /\ UNCHANGED <<shift_assignments, improved, current_score, cursor, pending,
                           kept, attempted, before_swap>>
    /\ UNCHANGED <<caller, inputs, employee_shifts, op, err, calls, greedy, entry_score,
                   score, result>>

\* _optimize_schedule returns, to generate_schedule (line 96) or to the caller
OptimizeReturn ==
    /\ pc = "optimized"
    /\ pc' = IF op = "generate" THEN "gen_finish" ELSE "idle"
    /\ op' = IF op = "generate" THEN op ELSE "none"
    /\ improved' = FALSE
    /\ iterations' = 0
    /\ current_score' = NoScore
    /\ cursor' = PassStart
    /\ entry_score' = 0
    /\ kept' = 0
    /\ attempted' = {}
    /\ before_swap' = <<>>
    /\ UNCHANGED <<caller, inputs, shift_assignments, employee_shifts, err, calls, greedy,
                   pending, score, result>>

\* a direct call of _evaluate_schedule; score is the value it returned,
\* until another operation is called
Evaluate ==
    /\ pc = "idle"
    /\ score' = EvaluateSchedule(shift_assignments, employee_shifts)
    /\ shift_assignments' = EvaluateTouch(shift_assignments)
    /\ UNCHANGED <<caller, inputs, employee_shifts, pc, op, err, calls, greedy, optimizer,
                   result>>

\* lines 99-108
Warnings(sc) ==
    (IF sc.unfilled_shifts > 0
     THEN <<[text |-> "Unable to fill N shifts", n |-> sc.unfilled_shifts]>> ELSE <<>>)
    \o sc.rule_violations
    \o (IF sc.preference_mismatches > 0
        THEN <<[text |-> "Schedule contains N shift preference mismatches",
                n |-> sc.preference_mismatches]>>
        ELSE <<>>)

\* _create_shift_assignments: one record per (slot, employee) in dict order
CreateShiftAssignments(sa) ==
    Flatten([i \in 1..Len(sa) |->
        [n \in 1..Len(sa[i].v) |->
            [id |-> "None", employee_id |-> sa[i].v[n], date |-> sa[i].k[1],
             shift_type |-> sa[i].k[2], schedule_id |-> 0, notes |-> "None"]]])

\* only equal dates are refused
SchedulePeriodRaises_eq(s, e) == s = e

\* SchedulePeriod.__post_init__ (schedule.py:63) raises ValueError unless
\* start_date < end_date; the window is taken not to lie in the past
SchedulePeriodRaises(s, e) == s >= e

\* generate_schedule, lines 96-121
Finalize ==
    /\ pc = "gen_finish"
    /\ LET sc == EvaluateSchedule(shift_assignments, employee_shifts)
           sa == EvaluateTouch(shift_assignments)
       IN  /\ score' = sc
           /\ shift_assignments' = sa
           /\ IF SchedulePeriodRaises(start_date, end_date)
              THEN /\ pc' = "raised"
                   /\ err' = "ValueError"
                   /\ UNCHANGED <<op, result>>
              ELSE /\ pc' = "idle"
                   /\ op' = "none"
                   /\ result' = <<[schedule |-> [id |-> "None", start_date |-> start_date,
                                                 end_date |-> end_date, status |-> "draft",
                                                 shifts |-> CreateShiftAssignments(sa)],
                                   warnings |-> Warnings(sc)]>>
                   /\ UNCHANGED err
    /\ UNCHANGED <<caller, inputs, employee_shifts, calls, greedy, optimizer>>

Next ==
    \/ InitialAssignment
    \/ GenerateSchedule
    \/ GenerateInitial
    \/ GreedyStep
    \/ GreedyDone
    \/ OptimizeSchedule
    \/ SwapAttempt
    \/ RevertSwap
    \/ PassEnd
    \/ OptimizeReturn
    \/ Evaluate
    \/ Finalize

Spec == Init /\ [][Next]_vars


(***************************************************************************)
(* Longer runs on one generator: a window of MaxEndDate + 1 days, no rules *)
(* and no time off, and up to MaxSequenceCalls direct calls of the greedy  *)
(* assigner, on the slots of one group at a time, and of the optimizer.    *)
(***************************************************************************)
\* the required slots of one group of the window
SingleGroupInputs == {GroupSlots(g) : g \in Range(WindowSlots)}

SequenceInit ==
    /\ Init
    /\ end_date = MaxEndDate
    /\ rules = <<>>
    /\ time_off_requests = <<>>
    /\ \A i \in 1..Len(employees) : employees[i].is_active

SequenceNext ==
    \/ InitialAssignmentWithin(MaxSequenceCalls, SingleGroupInputs)
    \/ GreedyStep
    \/ GreedyDone
    \/ OptimizeScheduleWithin(MaxSequenceCalls)
    \/ SwapAttempt
    \/ RevertSwap
    \/ PassEnd
    \/ OptimizeReturn

SequenceSpec == SequenceInit /\ [][SequenceNext]_vars

(***************************************************************************)
(* Properties.                                                             *)
(***************************************************************************)
EmployeeIds == {employees[i].id : i \in 1..Len(employees)}
Window == Range(date_range)

\* how often the employee stands in the lists of _shift_assignments
CountAssigned(sa, e) ==
    SumSeq([i \in 1..Len(sa) |-> Cardinality({n \in 1..Len(sa[i].v) : sa[i].v[n] = e})])

TotalAssigned(sa) == SumSeq([i \in 1..Len(sa) |-> Len(sa[i].v)])

\* the (employee, slot) pairs of _shift_assignments
AssignmentSet(sa) ==
    UNION {{<<sa[i].v[n], sa[i].k>> : n \in 1..Len(sa[i].v)} : i \in 1..Len(sa)}

TypesOn(e, d) ==
    {t \in Range(ShiftType) : e \in Range(DictGet(shift_assignments, <<d, t>>))}

GreedyOver == pc = "greedy" /\ shifts_by_difficulty = <<>>

\* the optimizer is back from a pass in which it called _try_swap
OptimizedWithSwaps == pc = "optimized" /\ cursor.held

ActiveRules == {i \in 1..Len(rules) : rules[i].is_active}

\* C1: no employee is assigned to more than one shift type on one date, in
\* any state of the assignment maps.
C1_NoDoubleBooking ==
    \A e \in EmployeeIds, d \in Window : Cardinality(TypesOn(e, d)) <= 1

\* C2: every employee in a slot's list is available on the slot's date, in
\* any state of the assignment maps (after a greedy assignment, after a swap
\* that _try_swap made).
C2_AvailabilityRespected ==
    \A i \in 1..Len(shift_assignments) :
        \A n \in 1..Len(shift_assignments[i].v) :
            LET k == <<shift_assignments[i].k[1], shift_assignments[i].v[n]>>
            IN  k \in DOMAIN employee_availability /\ employee_availability[k]

\* C3: when _optimize_schedule returns, the total score of the assignment
\* state is at least the total score of the state it was entered with.
C3_OptimizerMonotone ==
    pc = "optimized" =>
        EvaluateSchedule(shift_assignments, employee_shifts).total_score >= entry_score

C3_Witness ==
    /\ OptimizedWithSwaps
    /\ EvaluateSchedule(shift_assignments, employee_shifts).total_score < 0

\* where the loops of a pass stand, and the order in which they advance
CursorPos(c) == <<c.k1, c.k2, c.i, c.j>>

Precedes(a, b) ==
    \E n \in 1..4 : a[n] < b[n] /\ \A m \in 1..(n - 1) : a[m] = b[m]

CursorBounded(sa, c) ==
    /\ c.k1 <= Len(sa) /\ c.k2 <= Len(sa)
    /\ c.i <= TotalAssigned(sa) + 1 /\ c.j <= TotalAssigned(sa) + 1

\* C4: the optimizer halts: a step of a pass moves the loops forward inside
\* a bounded range or ends the pass, and a pass is begun only while fewer
\* than 1000 are done.  When it returns it has run at most 1000 passes, fewer
\* than 1000 only after a pass that kept no swap; and a pass that kept no swap
\* is the last one.
C4_Termination ==
    /\ [](pc = "optimized" =>
            /\ iterations >= 1
            /\ iterations <= max_iterations
            /\ (iterations < max_iterations => kept = 0))
    /\ [](pc \in {"optimize", "revert"} => iterations < max_iterations)
    /\ [][(pc = "optimize" /\ PassOver(shift_assignments, cursor) /\ kept = 0)
             => pc' = "optimized"]_vars
    /\ [][pc = "optimize" =>
             \/ iterations' = iterations + 1
             \/ pc' = "raised"
             \/ /\ iterations' = iterations
                /\ Precedes(CursorPos(cursor), CursorPos(cursor'))
                /\ CursorBounded(shift_assignments', cursor')
                /\ Len(shift_assignments') = Len(shift_assignments)
                /\ TotalAssigned(shift_assignments') = TotalAssigned(shift_assignments)]_vars
    /\ [][pc = "revert" =>
             /\ pc' \in {"optimize", "raised"}
             /\ cursor' = cursor
             /\ iterations' = iterations]_vars

C4_Witness == OptimizedWithSwaps /\ iterations = 1 /\ kept = 0

Staffed(slot) == Len(DictGet(shift_assignments, slot)) >= min_staff_required(slot[2])

C6_MaxShiftsRespected ==
    \A r \in ActiveRules :
        rules[r].rule_type = "max_shifts" =>
            \A e \in EmployeeIds :
                /\ CountAssigned(shift_assignments, e) <= rules[r].parameters.max_count
                /\ Len(DictGet(employee_shifts, e)) <= rules[r].parameters.max_count

\* the optimizer has tried swaps on a state in which an employee stands at
\* the limit of an active rule
C6_Witness ==
    /\ OptimizedWithSwaps
    /\ \E r \in ActiveRules, e \in EmployeeIds :
           CountAssigned(shift_assignments, e) = rules[r].parameters.max_count

\* an approved time-off request of the employee covers the whole window
OffWholeWindow(e) ==
    /\ date_range # <<>>
    /\ \E i \in 1..Len(time_off_requests) :
           /\ time_off_requests[i].employee_id = e
           /\ time_off_requests[i].status = "approved"
           /\ time_off_requests[i].start_date <= start_date
           /\ time_off_requests[i].end_date >= end_date

\* C7: an employee whose approved time off covers every date of the window
\* holds no assignment, in any state.
C7_FullyUnavailable ==
    \A e \in EmployeeIds :
        OffWholeWindow(e) =>
            /\ CountAssigned(shift_assignments, e) = 0
            /\ DictGet(employee_shifts, e) = <<>>

\* such an employee is active, and the greedy pass and the optimizer have
\* both worked on assignments of the others
C7_Witness ==
    /\ OptimizedWithSwaps
    /\ \E i \in 1..Len(employees) :
           employees[i].is_active /\ OffWholeWindow(employees[i].id)

ActiveEmployees == {i \in 1..Len(employees) : employees[i].is_active}

\* C8: with no active rule and fewer than 9 active employees, every GRAVES
\* and SWINGS slot of the window holds fewer than 4 employees.
C8_UnderFilled ==
    (ActiveRules = {} /\ Cardinality(ActiveEmployees) < 9) =>
        \A d \in Window :
            /\ Len(DictGet(shift_assignments, <<d, GRAVES>>)) < min_staff_required(GRAVES)
            /\ Len(DictGet(shift_assignments, <<d, SWINGS>>)) < min_staff_required(SWINGS)

\* C9: generate_schedule starts from empty assignment maps, whatever was
\* called on the object before.
C9_FreshStart ==
    pc = "gen_start" =>
        /\ TotalAssigned(shift_assignments) = 0
        /\ TotalAssigned(employee_shifts) = 0

\* C10: _evaluate_schedule returns the score of the state it leaves behind,
\* so a second call returns the same score, and it leaves the (employee,
\* slot) assignments as they were.
C10_IdempotentScoring ==
    [][Evaluate =>
          /\ score' = EvaluateSchedule(shift_assignments', employee_shifts')
          /\ AssignmentSet(shift_assignments') = AssignmentSet(shift_assignments)
          /\ TotalAssigned(shift_assignments') = TotalAssigned(shift_assignments)
          /\ employee_shifts' = employee_shifts]_vars

\* a score was returned for a state that holds assignments and leaves slots
\* of the window open
C10_Witness ==
    /\ pc = "idle"
    /\ score # NoScore
    /\ score.unfilled_shifts > 0
    /\ TotalAssigned(shift_assignments) > 0
    /\ score = EvaluateSchedule(shift_assignments, employee_shifts)

\* a call of generate_schedule is running or has raised
InGenerate == op = "generate"

\* the slots were scored (line 157) and one of them had nobody eligible
SomeSlotWithoutEligible ==
    \E i \in 1..Len(shift_scores) : shift_scores[i].available = 0

\* C11: a generate_schedule run in which the greedy assigner finds a slot
\* with no eligible employee does not raise (it goes on to return a schedule
\* that counts the slot as unfilled).
C11_UnfilledIsNotAnError ==
    (InGenerate /\ SomeSlotWithoutEligible) => pc # "raised"

\* the list has the form the warnings are described to have for score sc
WarningsAsDescribed(w, sc) ==
    LET nU == IF sc.unfilled_shifts > 0 THEN 1 ELSE 0
        nV == Len(sc.rule_violations)
        nM == IF sc.preference_mismatches > 0 THEN 1 ELSE 0
    IN  /\ Len(w) = nU + nV + nM
        /\ nU = 1 => w[1] = [text |-> "Unable to fill N shifts", n |-> sc.unfilled_shifts]
        /\ \A i \in 1..nV : w[nU + i] = sc.rule_violations[i]
        /\ nM = 1 => w[Len(w)] = [text |-> "Schedule contains N shift preference mismatches",
                                  n |-> sc.preference_mismatches]

\* C12: generate_schedule on a window that SchedulePeriod accepts returns a
\* warning list: it does not raise, and the list built from the final score
\* is the unfilled entry iff unfilled > 0, then the rule violations, then the
\* mismatch entry iff mismatches > 0, and nothing else.
C12_WarningList ==
    /\ (InGenerate /\ start_date < end_date) => pc # "raised"
    /\ WarningsAsDescribed(Warnings(EvaluateSchedule(shift_assignments, employee_shifts)),
                           EvaluateSchedule(shift_assignments, employee_shifts))

\* the records are one per (slot group, assigned employee) pair of sa, each
\* with no id, the placeholder schedule id and no notes
MaterializedAsDescribed(shifts, sa) ==
    /\ Len(shifts) = TotalAssigned(sa)
    /\ \A i \in 1..Len(sa) :
           \A e \in Range(sa[i].v) :
               Cardinality({n \in 1..Len(shifts) :
                               /\ shifts[n].employee_id = e
                               /\ shifts[n].date = sa[i].k[1]
                               /\ shifts[n].shift_type = sa[i].k[2]})
                   = Cardinality({n \in 1..Len(sa[i].v) : sa[i].v[n] = e})
    /\ \A n \in 1..Len(shifts) :
           shifts[n].id = "None" /\ shifts[n].schedule_id = 0 /\ shifts[n].notes = "None"

\* C13: generate_schedule returns a SchedulePeriod (it does not raise on a
\* window with start before end); the period is a draft without id, and the
\* materializer's list holds exactly one record per (slot group, assigned
\* employee) pair of the assignment state, with placeholder schedule id and
\* no notes.
C13_MaterializedSchedule ==
    /\ (InGenerate /\ pc = "raised") => start_date >= end_date
    /\ MaterializedAsDescribed(CreateShiftAssignments(shift_assignments), shift_assignments)
    /\ result # <<>> =>
           /\ result[1].schedule.status = "draft"
           /\ result[1].schedule.id = "None"

\* C14: generate_schedule on a window of one day (start_date = end_date)
\* completes: it does not raise, and SchedulePeriod accepts the two dates.
C14_SingleDayWindow ==
    (InGenerate /\ start_date = end_date) =>
        /\ pc # "raised"
        /\ ~SchedulePeriodRaises(start_date, end_date)

\* C15: no returned SchedulePeriod has start_date after end_date, and
\* generate_schedule on a window with start_date > end_date returns nothing:
\* its last step raises ValueError.
C15_ReversedWindowRejected ==
    /\ [](result # <<>> => result[1].schedule.start_date <= result[1].schedule.end_date)
    /\ [](start_date > end_date => result = <<>>)
    /\ [][(pc = "gen_finish" /\ start_date > end_date)
             => (pc' = "raised" /\ err' = "ValueError" /\ result' = <<>>)]_vars

\* generate_schedule ran to its last step on a reversed window and raised
C15_Witness ==
    /\ InGenerate
    /\ start_date > end_date
    /\ pc = "raised"
    /\ err = "ValueError"

(***************************************************************************)
(* The caller builds the list of time-off requests, one TimeOffRequest(...) *)
(* at a time, before any generator exists.                                 *)
(***************************************************************************)
RequestInit ==
    /\ start_date = 0
    /\ end_date = MaxEndDate
    /\ employees \in EmployeeInputs
    /\ rules = <<>>
    /\ time_off_requests = <<>>
    /\ employee_availability = <<>>
    /\ shift_assignments = <<>>
    /\ employee_shifts = <<>>
    /\ pc = "caller"
    /\ op = "none"
    /\ err = "none"
    /\ calls = 0
    /\ shifts_by_difficulty = <<>>
    /\ improved = FALSE
    /\ iterations = 0
    /\ current_score = NoScore
    /\ cursor = PassStart
    /\ pending = <<>>
    /\ score = NoScore
    /\ result = <<>>
    /\ shift_scores = <<>>
    /\ greedy_log = <<>>
    /\ entry_score = 0
    /\ kept = 0
    /\ attempted = {}
    /\ before_swap = <<>>
    /\ request_call = NoCall

\* TimeOffRequest(employee_id, start_date, end_date, status): the dataclass
\* is built and __post_init__ runs; the caller appends what it got
ConstructTimeOffRequest ==
    /\ pc = "caller"
    /\ Len(time_off_requests) < MaxRequests
    /\ \E employee_id \in 1..NumEmployees, s \in 0..MaxRequestDate, e \in 0..MaxRequestDate,
          st \in TimeOffRequestStatus :
           /\ request_call' = [made |-> TRUE, employee_id |-> employee_id,
                               start_date |-> s, end_date |-> e, status |-> st,
                               raised |-> TimeOffRequestRaises(s, e)]
           /\ IF TimeOffRequestRaises(s, e)
              THEN /\ pc' = "raised"
                   /\ err' = "ValueError"
                   /\ UNCHANGED time_off_requests
              ELSE /\ time_off_requests' =
                          Append(time_off_requests,
                                 [employee_id |-> employee_id, start_date |-> s,
                                  end_date |-> e, status |-> st])
                   /\ UNCHANGED <<pc, err>>
    /\ UNCHANGED <<start_date, end_date, employees, rules, employee_availability,
                   shift_assignments, employee_shifts, op, calls, greedy, optimizer,
                   score, result>>

RequestNext == ConstructTimeOffRequest

RequestSpec == RequestInit /\ [][RequestNext]_vars

\* ScheduleGenerator(start_date, end_date, employees, [], time_off_requests)
\* with the requests the caller has built: __init__, lines 29-38
ConstructGenerator ==
    /\ pc = "caller"
    /\ \E e \in (0 - 1)..MaxEndDate :
           /\ end_date' = e
           /\ employee_availability' =
                  BuildAvailabilityMap(start_date, e, employees, time_off_requests)
    /\ pc' = "idle"
    /\ UNCHANGED <<caller, start_date, employees, rules, time_off_requests,
                   shift_assignments, employee_shifts, op, err, calls, greedy, optimizer,
                   score, result>>

AvailabilityNext == ConstructTimeOffRequest \/ ConstructGenerator

AvailabilitySpec == RequestInit /\ [][AvailabilityNext]_vars

\* C16: a call TimeOffRequest(...) raises exactly when its end date is
\* before its start date; a request with start = end is accepted.
C16_RequestConstruction ==
    request_call.made =>
        (request_call.raised <=> request_call.end_date < request_call.start_date)

\* the calls _try_swap(e1, slot1, e2, slot2) the claim asks of a pass: the
\* two groups are distinct, e1 stands in the first and e2 in the second
SwapsDue(sa) ==
    UNION {{<<sa[p[1]].k, e1, sa[p[2]].k, e2>> :
               e1 \in Range(sa[p[1]].v), e2 \in Range(sa[p[2]].v)} : p \in SwapPairs(sa)}

\* C17: when a pass of the optimizer is over, it has called _try_swap for
\* every ordered pair of distinct slot groups and every pair (e1, e2) with e1
\* in the first group and e2 in the second.  (Every swap of the pass was
\* taken back, so the groups hold the same employees as when the pass
\* reached them.)
C17_AllPairsAttempted ==
    (pc = "optimize" /\ PassOver(shift_assignments, cursor) /\ kept = 0) =>
        SwapsDue(shift_assignments) \subseteq attempted

\* how often x stands in the list the dict holds for k
Occurs(d, k, x) ==
    Cardinality({n \in 1..Len(DictGet(d, k)) : DictGet(d, k)[n] = x})

\* the two maps hold the same (employee, slot) assignments, each as often
SameAssignments(sa1, sa2) ==
    \A e \in EmployeeIds, slot \in Range(WindowSlots) :
        Occurs(sa1, slot, e) = Occurs(sa2, slot, e)

SameShifts(es1, es2) ==
    \A e \in EmployeeIds, slot \in Range(WindowSlots) :
        Occurs(es1, e, slot) = Occurs(es2, e, slot)

\* C18: a committed swap that is not strictly better than the score of the
\* pass start is taken back, and the revert succeeds: it does not raise, it
\* leaves no swap in place, and afterwards both maps hold exactly the
\* assignments they held before the swap was attempted.
C18_RevertRestores ==
    /\ [][(pc = "optimize" /\ pc' = "optimize" /\ iterations' = iterations
             /\ ~SameAssignments(shift_assignments', shift_assignments))
            => Better(EvaluateSchedule(shift_assignments', employee_shifts'), current_score)]_vars
    /\ [][pc = "revert" =>
            /\ pc' = "optimize"
            /\ kept' = kept
            /\ SameAssignments(shift_assignments', before_swap[1])
            /\ SameShifts(employee_shifts', before_swap[2])]_vars

\* a swap that moved two different employees was made and taken back
C18_Witness ==
    /\ pc = "optimize"
    /\ kept = 0
    /\ before_swap = <<>>
    /\ \E a \in attempted : a[2] # a[4]

\* every employee id and every slot that stands in one of the two maps, as
\* a key or inside a list
KnownEmployees ==
    EmployeeIds \cup {employee_shifts[i].k : i \in 1..Len(employee_shifts)}
        \cup UNION {Range(shift_assignments[i].v) : i \in 1..Len(shift_assignments)}

KnownSlots ==
    Range(WindowSlots) \cup {shift_assignments[i].k : i \in 1..Len(shift_assignments)}
        \cup UNION {Range(employee_shifts[i].v) : i \in 1..Len(employee_shifts)}

\* C21: the two assignment maps agree in every state: each employee stands
\* in a slot's list of _shift_assignments exactly as often as the slot stands
\* in the employee's list of _employee_shifts.
C21_MapsConsistent ==
    \A e \in KnownEmployees, slot \in KnownSlots :
        Occurs(shift_assignments, slot, e) = Occurs(employee_shifts, e, slot)

\* a swap was committed and waits to be taken back, and an employee holds
\* the same slot more than once
C21_Witness ==
    /\ pc = "revert"
    /\ \E e \in KnownEmployees, slot \in KnownSlots :
           Occurs(shift_assignments, slot, e) >= 2

\* the four removals of _try_swap(emp1, slot1, emp2, slot2) (lines 273-276)
\* find what they remove
RemovalsFind(sa, es, emp1, slot1, emp2, slot2) ==
    TrySwap(sa, es, emp1, slot1, emp2, slot2).ended # "ValueError"

ByCountStable(scores) ==
    Vals(StableSort([i \in 1..Len(scores) |->
            [key |-> <<scores[i].available, 0>>, val |-> scores[i].shift]]))

\* C23: the ordering step of the greedy assigner completes for every input,
\* and the loop of lines 140-149 starts on the slots in ascending order of
\* their eligibility count, slots of equal count in their input order.
C23_GreedyOrder ==
    /\ err # "TypeError"
    /\ (pc = "greedy" /\ greedy_log = <<>>) =>
           shifts_by_difficulty = ByCountStable(shift_scores)

\* the shift type a stated preference names, as the spec reads a preference
PreferredType(preference) ==
    CASE preference = "ShiftPreference.GRAVES" -> GRAVES
      [] preference = "ShiftPreference.SWINGS" -> SWINGS
      [] preference = "ShiftPreference.DAYS" -> DAYS
      [] OTHER -> "none"

PreferenceMatches(employee_id, shift_type) ==
    PreferredType(EmployeeById(employee_id).shift_preference) = shift_type

\* C24: in each iteration of the greedy loop that finds an eligible
\* employee, the employee assigned is an eligible one whose preference names
\* the slot's shift type if any eligible employee's does, and no eligible
\* employee of the same preference match holds fewer shifts.
C24_GreedyPick ==
    [][(pc = "greedy" /\ shifts_by_difficulty # <<>>) =>
          LET slot == Head(shifts_by_difficulty)
              eligible == Range(EligibleIds(employee_shifts, slot[1], slot[2]))
              load(e) == Len(DictGet(employee_shifts, e))
          IN  eligible # {} =>
                  \E e \in eligible :
                      /\ shift_assignments' = AssignShiftSA(shift_assignments, e, slot)
                      /\ (\E m \in eligible : PreferenceMatches(m, slot[2]))
                             => PreferenceMatches(e, slot[2])
                      /\ \A o \in eligible :
                             (PreferenceMatches(o, slot[2]) <=> PreferenceMatches(e, slot[2]))
                                 => load(e) <= load(o)]_vars

\* the assignments of employees with a stated preference for another shift
\* type than the one assigned
StatedMismatches(es) ==
    SumSeq([i \in 1..Len(es) |->
        Cardinality({n \in 1..Len(es[i].v) :
            /\ EmployeeById(es[i].k).shift_preference # "ShiftPreference.NO_PREFERENCE"
            /\ PreferredType(EmployeeById(es[i].k).shift_preference) # es[i].v[n][2]})])

\* C25: the preference_mismatches of a score that _evaluate_schedule
\* returned counts exactly the assignments of employees whose stated
\* preference names another shift type; an assignment of an employee with
\* NO_PREFERENCE is not counted.
C25_NoPreferenceNeverMismatch ==
    score # NoScore => score.preference_mismatches = StatedMismatches(employee_shifts)

\* an approved request of the employee covers the date
ApprovedOff(e, d) ==
    \E r \in 1..Len(time_off_requests) :
        /\ time_off_requests[r].employee_id = e
        /\ time_off_requests[r].status = "approved"
        /\ time_off_requests[r].start_date <= d
        /\ d <= time_off_requests[r].end_date

\* a request of the employee in another status covers the date
OtherRequest(e, d) ==
    \E r \in 1..Len(time_off_requests) :
        /\ time_off_requests[r].employee_id = e
        /\ time_off_requests[r].status # "approved"
        /\ time_off_requests[r].start_date <= d
        /\ d <= time_off_requests[r].end_date

\* C26: in the availability map of a constructed generator, the entry of a
\* date of the window and an active employee is true exactly when no
\* approved time-off request of the employee covers the date and the date's
\* weekday is not one of the employee's fixed days off; requests in another
\* status change nothing.
C26_AvailabilityMap ==
    pc = "idle" =>
        \A d \in Window, i \in ActiveEmployees :
            /\ <<d, employees[i].id>> \in DOMAIN employee_availability
            /\ employee_availability[<<d, employees[i].id>>] <=>
                   /\ ~ApprovedOff(employees[i].id, d)
                   /\ weekday(d) \notin employees[i].fixed_days_off

\* one active employee is off by an approved request that ends on the date,
\* a second is off by a fixed day only, and a third entry stays true under a
\* request that is not approved
C26_Witness ==
    /\ pc = "idle"
    /\ \E d \in Window, i \in ActiveEmployees :
           /\ ApprovedOff(employees[i].id, d)
           /\ ~ApprovedOff(employees[i].id, d + 1)
           /\ weekday(d) \notin employees[i].fixed_days_off
           /\ ~employee_availability[<<d, employees[i].id>>]
    /\ \E d \in Window, i \in ActiveEmployees :
           /\ ~ApprovedOff(employees[i].id, d)
           /\ weekday(d) \in employees[i].fixed_days_off
           /\ ~employee_availability[<<d, employees[i].id>>]
    /\ \E d \in Window, i \in ActiveEmployees :
           /\ OtherRequest(employees[i].id, d)
           /\ employee_availability[<<d, employees[i].id>>]

\* C27: the availability map of a generator has an entry for each date of
\* the window and each active employee and no other entry, so no inactive
\* employee stands in it, whatever the time-off requests name; and no
\* inactive employee holds an assignment.
C27_ActiveOnly ==
    /\ DOMAIN employee_availability =
           {<<d, employees[i].id>> : d \in Window, i \in ActiveEmployees}
    /\ \A i \in 1..Len(employees) :
           ~employees[i].is_active =>
               /\ CountAssigned(shift_assignments, employees[i].id) = 0
               /\ DictGet(employee_shifts, employees[i].id) = <<>>

\* what the slot group lacks of its minimum staff; nothing when it holds
\* the minimum or more
Shortfall(slot) ==
    LET assigned == Len(DictGet(shift_assignments, slot))
    IN  IF min_staff_required(slot[2]) > assigned
        THEN min_staff_required(slot[2]) - assigned ELSE 0

PenaltyCounts == 0..MaxPenaltyCount

RequiredGenerated == [i \in 1..Len(shift_scores) |-> shift_scores[i].shift]

\* the sort of line 138 was reached by a call of generate_schedule
RequirementsGenerated ==
    /\ op = "generate"
    /\ \/ pc = "greedy" /\ greedy_log = <<>>
       \/ pc = "raised" /\ err = "TypeError"

\* C29: the list of required slots that generate_schedule builds holds, for
\* every date of the window, (date, GRAVES) four times, (date, SWINGS) four
\* times and (date, DAYS) once, nine slots per date, and nothing else.
C29_RequiredSlots ==
    RequirementsGenerated =>
        /\ \A d \in Window :
               /\ Cardinality({i \in 1..Len(RequiredGenerated) :
                                  RequiredGenerated[i] = <<d, GRAVES>>}) = 4
               /\ Cardinality({i \in 1..Len(RequiredGenerated) :
                                  RequiredGenerated[i] = <<d, SWINGS>>}) = 4
               /\ Cardinality({i \in 1..Len(RequiredGenerated) :
                                  RequiredGenerated[i] = <<d, DAYS>>}) = 1
        /\ Len(RequiredGenerated) = 9 * Cardinality(Window)
        /\ \A i \in 1..Len(RequiredGenerated) : RequiredGenerated[i][1] \in Window

\* the list was built for a window of more than one date
C29_Witness ==
    /\ RequirementsGenerated
    /\ Cardinality(Window) >= 2
    /\ Len(RequiredGenerated) = 9 * Cardinality(Window)

\* the object has seen at most one greedy pass, and at most one run of the
\* optimizer after it: the first call made on it is running or is over, or
\* the second call is running and is a call of the optimizer
OneRun == calls <= 1 \/ (calls = 2 /\ op = "optimize")

=============================================================================
